---- MODULE Spec2Model ----
(***************************************************************************)
(* The /voice/token endpoint of the LiveKit voice-chat module              *)
(* (controllers/voice_api.py, VoiceController.get_token).                  *)
(*                                                                         *)
(* Representation of Python values:                                        *)
(*   - a value that may be None / False (os.getenv, an Odoo field, the     *)
(*     optional argument) is a sequence of length 0 (None, False) or 1;    *)
(*   - a string the code processes character by character (credentials,   *)
(*     identities) is a sequence of one-character strings;                 *)
(*   - a string the code only compares, concatenates or passes on (agent   *)
(*     ids, room names, prompts) is a TLA+ string;                         *)
(*   - a message built by an f-string is the sequence of its pieces.       *)
(***************************************************************************)
EXTENDS Integers, Sequences, FiniteSets, TLC

VARIABLES
    env,               \* os.environ: variable name -> None or a string
    store,             \* ir.config_parameter: key -> no record or its value
    HAS_LIVEKIT_SDK,   \* module-level flag set when the module is imported
    frames,            \* one activation record of get_token per request slot
    probe              \* a raw identity and what sanitization makes of it

vars == <<env, store, HAS_LIVEKIT_SDK, frames, probe>>

(***************************************************************************)
(* Bounds of the model.                                                    *)
(***************************************************************************)
MaxLen == 2        \* longest login / display name
MaxRawLen == 3     \* longest raw identity handed to sanitization alone
MaxUrlLen == 2     \* longest service URL
MaxId == 12        \* largest numeric user id
NumRequests == 2   \* concurrent invocations

Requests == 1..NumRequests

(***************************************************************************)
(* Python values and string methods.                                       *)
(***************************************************************************)
None == <<>>
Some(v) == <<v>>

\* Truthiness of None / False / a str held as characters.
Truthy(o) == o # None /\ o[1] # <<>>

\* a or b
Or(a, b) == IF Truthy(a) THEN a ELSE b

Texts(alphabet, n) == UNION {[1..k -> alphabet] : k \in 0..n}

Range(s) == {s[i] : i \in DOMAIN s}

\* the characters str.strip() removes
Whitespace == {" ", "\t", "\n", "\r", "\f"}

Lower == {"a","b","c","d","e","f","g","h","i","j","k","l","m",
          "n","o","p","q","r","s","t","u","v","w","x","y","z"}
Upper == {"A","B","C","D","E","F","G","H","I","J","K","L","M",
          "N","O","P","Q","R","S","T","U","V","W","X","Y","Z"}
Digits == <<"0","1","2","3","4","5","6","7","8","9">>

\* the complement of the character class [^a-zA-Z0-9_\-.]
AllowedChars == Lower \cup Upper \cup Range(Digits) \cup {"_", "-", "."}

RECURSIVE lstrip(_, _)
lstrip(s, chars) ==
    IF s # <<>> /\ Head(s) \in chars THEN lstrip(Tail(s), chars) ELSE s

RECURSIVE rstrip(_, _)
rstrip(s, chars) ==
    IF s # <<>> /\ s[Len(s)] \in chars
    THEN rstrip(SubSeq(s, 1, Len(s) - 1), chars)
    ELSE s

\* str.strip()
strip(s) == rstrip(lstrip(s, Whitespace), Whitespace)

\* str.replace(old, new) for a one-character old
RECURSIVE replace(_, _, _)
replace(s, old, new) ==
    IF s = <<>> THEN <<>>
    ELSE (IF Head(s) = old THEN new ELSE <<Head(s)>>) \o replace(Tail(s), old, new)

\* re.sub(r'[^a-zA-Z0-9_\-.]', '', s)
re_sub(s) == SelectSeq(s, LAMBDA c : c \in AllowedChars)

\* str(n) for an int n >= 0
RECURSIVE str_int(_)
str_int(n) ==
    IF n < 10 THEN <<Digits[n + 1]>>
    ELSE str_int(n \div 10) \o <<Digits[(n % 10) + 1]>>

\* str(user.id): the id of an empty recordset is False
str_id(id) == IF id = None THEN <<"F","a","l","s","e">> ELSE str_int(id[1])

\* truthiness of user.id (False and 0 are falsy)
TruthyId(id) == id # None /\ id[1] # 0

(***************************************************************************)
(* Configuration sources and the process globals get_token can see.        *)
(***************************************************************************)
EnvNames == {"LIVEKIT_URL", "LIVEKIT_API_KEY", "LIVEKIT_API_SECRET"}
ParamKeys == {"livekit.url", "livekit.api_key", "livekit.api_secret"}

Globals == [environ |-> env, params |-> store, HAS_LIVEKIT_SDK |-> HAS_LIVEKIT_SDK]

\* os.getenv(name): None when the variable is not set
os_getenv(g, name) == g.environ[name]

\* request.env['ir.config_parameter'].sudo().get_param(key, default)
get_param(g, key, default) ==
    IF g.params[key] = None THEN Some(default) ELSE g.params[key]

\* `os.getenv(..) or ..get_param(..)` evaluates get_param only when the
\* environment value is falsy
StoreRead(g, name) == ~Truthy(os_getenv(g, name))

ResolveStoreFirst(g, name, key) ==
    Or(get_param(g, key, <<>>), os_getenv(g, name))

\* os.getenv(name) or get_param(key, '')
Resolve(g, name, key) == Or(os_getenv(g, name), get_param(g, key, <<>>))

(***************************************************************************)
(* Messages.                                                               *)
(***************************************************************************)
ConfigErrorMsg ==
    <<"LiveKit not configured. Please set ", "LIVEKIT_URL", ", ",
      "LIVEKIT_API_KEY", ", and ", "LIVEKIT_API_SECRET",
      " environment variables or system parameters.">>

SdkErrorMsg(import_error) ==
    <<"LiveKit SDK not available. Import error: ", import_error,
      ". Please ensure livekit is installed in the Odoo Python environment: pip install livekit --break-system-packages">>

\* what can go wrong outside get_token during one request
Faults == {"none", "store", "user", "import", "import_other", "sign"}

\* str(e) of the exception each fault raises
ExceptionText(fault) ==
    CASE fault = "store" -> "connection to the database failed"
      [] fault = "user" -> "Record does not exist or has been deleted."
      [] fault = "import" -> "No module named 'livekit'"
      [] fault = "import_other" -> "module 'livekit' has no attribute 'api'"
      [] fault = "sign" -> "secret must be set"
      [] OTHER -> ""

(***************************************************************************)
(* Activation records.                                                     *)
(***************************************************************************)
NoUser == [login |-> None, name |-> None, id |-> None]
NoRequest == [agent_id |-> None, user |-> NoUser, fault |-> "none"]

IdleFrame ==
    [pc |-> "idle", request |-> NoRequest,
     livekit_url |-> None, livekit_api_key |-> None, livekit_api_secret |-> None,
     agent_id |-> None, room_name |-> None, identity |-> None, token |-> None,
     signCalls |-> <<>>, response |-> None]

\* entry of get_token(self, agent_id=None)
NewFrame(req) ==
    [IdleFrame EXCEPT !.pc = "url", !.request = req, !.agent_id = req.agent_id]

RaisePropagates(f, msg) == [f EXCEPT !.pc = "raised"]

\* except Exception as e: return {'error': str(e)}
Raise(f, msg) == [f EXCEPT !.pc = "done", !.response = Some([error |-> msg])]

\* return <payload>
Return(f, payload) == [f EXCEPT !.pc = "done", !.response = Some(payload)]

(***************************************************************************)
(* get_token, statement by statement.                                      *)
(***************************************************************************)
ReadCredential(f, g, local, name, key, next) ==
    IF StoreRead(g, name) /\ f.request.fault = "store"
    THEN Raise(f, <<ExceptionText("store")>>)
    ELSE [f EXCEPT ![local] = Resolve(g, name, key), !.pc = next]

all_but_secret(f) == Truthy(f.livekit_url) /\ Truthy(f.livekit_api_key)

\* all([livekit_url, livekit_api_key, livekit_api_secret])
all_present(f) ==
    Truthy(f.livekit_url) /\ Truthy(f.livekit_api_key) /\ Truthy(f.livekit_api_secret)

CheckConfigured(f) ==
    IF ~all_present(f)
    THEN Return(f, [error |-> ConfigErrorMsg])
    ELSE [f EXCEPT !.pc = "agent"]

agent_prompts ==
    [customer_support |-> "You are a helpful customer support agent. Assist users with their questions and issues in a friendly and professional manner.",
     accounting |-> "You are an accounting assistant. Help users with financial questions, accounting principles, and bookkeeping tasks.",
     general |-> "You are a helpful AI assistant. Answer questions and provide assistance on various topics."]

ResolveAgentAsGiven(agent_id) == IF agent_id = None THEN "general" ELSE agent_id[1]

\* if not agent_id or agent_id not in agent_prompts: agent_id = 'general'
ResolveAgent(agent_id) ==
    IF agent_id = None \/ agent_id[1] = "" \/ agent_id[1] \notin DOMAIN agent_prompts
    THEN "general"
    ELSE agent_id[1]

SingleRoom(agent_id) == "voice_chat"

\* f"voice_chat_{agent_id}"
RoomName(agent_id) == "voice_chat_" \o agent_id

AssignRoom(f) ==
    LET agent_id == ResolveAgent(f.agent_id)
    IN [f EXCEPT !.agent_id = Some(agent_id),
                 !.room_name = Some(RoomName(agent_id)),
                 !.pc = "identity"]

Anonymous == <<"a","n","o","n","y","m","o","u","s">>

\* f"user_{user.id}"
UserIdText(user) == <<"u","s","e","r","_">> \o str_id(user.id)

\* f"user_{user.id}" if user.id else "anonymous"
Fallback(user) == IF TruthyId(user.id) THEN UserIdText(user) ELSE Anonymous

\* identity = user.login or user.name or f"user_{user.id}" or "anonymous"
\* if not identity or not identity.strip(): identity = <fallback>
SelectIdentity(user) ==
    LET identity ==
            Or(user.login, Or(user.name, Or(Some(UserIdText(user)), Some(Anonymous))))[1]
    IN IF identity = <<>> \/ strip(identity) = <<>> THEN Fallback(user) ELSE identity

SanitizeDropsAt(identity) == re_sub(replace(strip(identity), " ", <<"_">>))

\* identity.strip().replace(' ', '_').replace('@', '_at_'), then re.sub
Sanitize(identity) ==
    re_sub(replace(replace(strip(identity), " ", <<"_">>), "@", <<"_","a","t","_">>))

KeepSanitized(identity, user) == identity

\* if not identity or len(identity) == 0: identity = <fallback>
FinalIdentity(identity, user) ==
    IF identity = <<>> THEN Fallback(user) ELSE identity

ResolveIdentity(f) ==
    IF f.request.fault = "user"
    THEN Raise(f, <<ExceptionText("user")>>)
    ELSE LET user == f.request.user
         IN [f EXCEPT !.identity =
                          Some(FinalIdentity(Sanitize(SelectIdentity(user)), user)),
                      !.pc = "import"]

ImportApiFlag(f, g) ==
    IF ~g.HAS_LIVEKIT_SDK
    THEN Return(f, [error |-> SdkErrorMsg(ExceptionText("import"))])
    ELSE [f EXCEPT !.pc = "sign"]

\* try: from livekit import api / except ImportError: return {'error': ...}
ImportApi(f, g) ==
    CASE f.request.fault = "import" ->
            Return(f, [error |-> SdkErrorMsg(ExceptionText("import"))])
      [] f.request.fault = "import_other" ->
            Raise(f, <<ExceptionText("import_other")>>)
      [] OTHER -> [f EXCEPT !.pc = "sign"]

\* api.VideoGrants(room_join=True, can_publish=True, can_subscribe=True, room=..)
VideoGrants(room) ==
    [room_join |-> TRUE, can_publish |-> TRUE, can_subscribe |-> TRUE, room |-> room]

\* api.AccessToken(key, secret).with_identity(..).with_grants(..).to_jwt():
\* a token issued by the key, asserting the identity and the grants, signed
\* with the secret
to_jwt(call) ==
    [iss |-> call.api_key, sub |-> call.identity, video |-> call.grants,
     signed_with |-> call.api_secret]

SignToken(f) ==
    LET call == [api_key |-> f.livekit_api_key[1],
                 api_secret |-> f.livekit_api_secret[1],
                 identity |-> f.identity[1],
                 grants |-> VideoGrants(f.room_name[1])]
        called == [f EXCEPT !.signCalls = Append(@, call)]
    IN IF f.request.fault = "sign"
       THEN Raise(called, <<ExceptionText("sign")>>)
       ELSE [called EXCEPT !.token = Some(to_jwt(call)), !.pc = "respond"]

UrlAsConfigured(url) == url

\* livekit_url.rstrip('/')
StripUrl(url) == rstrip(url, {"/"})

\* return {'room': .., 'token': .., 'url': .., 'agent_id': .., 'prompt': ..}
Respond(f) ==
    IF f.agent_id[1] \notin DOMAIN agent_prompts
    THEN Raise(f, <<f.agent_id[1]>>)      \* KeyError from agent_prompts[agent_id]
    ELSE Return(f, [room |-> f.room_name[1],
                    token |-> f.token[1],
                    url |-> StripUrl(f.livekit_url[1]),
                    agent_id |-> f.agent_id[1],
                    prompt |-> agent_prompts[f.agent_id[1]]])

\* one statement of get_token
Step(f, g) ==
    CASE f.pc = "url" ->
            ReadCredential(f, g, "livekit_url", "LIVEKIT_URL", "livekit.url", "key")
      [] f.pc = "key" ->
            ReadCredential(f, g, "livekit_api_key", "LIVEKIT_API_KEY",
                           "livekit.api_key", "secret")
      [] f.pc = "secret" ->
            ReadCredential(f, g, "livekit_api_secret", "LIVEKIT_API_SECRET",
                           "livekit.api_secret", "check")
      [] f.pc = "check" -> CheckConfigured(f)
      [] f.pc = "agent" -> AssignRoom(f)
      [] f.pc = "identity" -> ResolveIdentity(f)
      [] f.pc = "import" -> ImportApi(f, g)
      [] f.pc = "sign" -> SignToken(f)
      [] f.pc = "respond" -> Respond(f)
      [] OTHER -> f

Running(f) == f.pc \notin {"idle", "done", "raised"}

\* the whole of get_token, from entry to its return
RECURSIVE Run(_, _)
Run(f, g) == IF Running(f) THEN Run(Step(f, g), g) ELSE f

get_token(req, g) == Run(NewFrame(req), g)

(***************************************************************************)
(* Inputs.                                                                 *)
(***************************************************************************)
ParamOf(name) ==
    CASE name = "LIVEKIT_URL" -> "livekit.url"
      [] name = "LIVEKIT_API_KEY" -> "livekit.api_key"
      [] name = "LIVEKIT_API_SECRET" -> "livekit.api_secret"

UrlTexts == Texts({"h", "/"}, MaxUrlLen)
FewUrlTexts == {<<>>, <<"h">>, <<"w", "/">>}

\* the values a setting may be given; urls is the set of service URLs tried
CredTexts(name, urls) ==
    CASE name = "LIVEKIT_URL" -> urls
      [] name = "LIVEKIT_API_KEY" -> {<<>>, <<"k">>}
      [] name = "LIVEKIT_API_SECRET" -> {<<>>, <<"s">>}

\* an environment variable is unset, empty or set
EnvValues(name, urls) == {None} \cup {Some(t) : t \in CredTexts(name, urls)}

\* a system parameter has no record or a non-empty value
ParamValues(name, urls) == {None} \cup {Some(t) : t \in CredTexts(name, urls) \ {<<>>}}

Environs(urls) == {e \in [EnvNames -> UNION {EnvValues(n, urls) : n \in EnvNames}] :
                      \A n \in EnvNames : e[n] \in EnvValues(n, urls)}

ParamStores(urls) ==
    {p \in [ParamKeys -> UNION {ParamValues(n, urls) : n \in EnvNames}] :
        \A n \in EnvNames : p[ParamOf(n)] \in ParamValues(n, urls)}

NothingSet == [n \in EnvNames |-> None]
NoParams == [k \in ParamKeys |-> None]

AllSet ==
    [n \in EnvNames |->
        CASE n = "LIVEKIT_URL" -> Some(<<"h", "/">>)
          [] n = "LIVEKIT_API_KEY" -> Some(<<"k">>)
          [] n = "LIVEKIT_API_SECRET" -> Some(<<"s">>)]

KnownAgents == DOMAIN agent_prompts

AgentIds == {None, Some(""), Some("sales")} \cup {Some(a) : a \in KnownAgents}

IdentChars == {"a", "-", " ", "\t", "@", "!"}
RawChars == {"a", "Z", "7", "_", "-", ".", " ", "\t", "@", "!"}

OptTexts == {None} \cup {Some(t) : t \in Texts(IdentChars, MaxLen)}
UserIds == {None, Some(0), Some(MaxId)}
Users == [login : OptTexts, name : OptTexts, id : UserIds]

Alice == [login |-> Some(<<"a", "@", "b">>), name |-> Some(<<"A", " ", "B">>),
          id |-> Some(MaxId)]
Blank == [login |-> Some(<<" ">>), name |-> None, id |-> None]

JohnDoe == <<"j","o","h","n",".","d","o","e","@",
             "e","x","a","m","p","l","e",".","c","o","m">>

IdleProbe == [raw |-> <<>>, sanitized |-> None]

(***************************************************************************)
(* Spec: a server whose configuration changes between calls.  Calls are    *)
(* served one at a time; slot 1 holds the last call.                       *)
(***************************************************************************)
Init ==
    /\ env = NothingSet
    /\ store = NoParams
    /\ HAS_LIVEKIT_SDK \in BOOLEAN
    /\ frames = [r \in Requests |-> IdleFrame]
    /\ probe = IdleProbe

\* export NAME=value (value may be empty)
SetEnv ==
    /\ \E n \in EnvNames : \E t \in CredTexts(n, FewUrlTexts) :
          env' = [env EXCEPT ![n] = Some(t)]
    /\ UNCHANGED <<store, HAS_LIVEKIT_SDK, frames, probe>>

\* unset NAME
UnsetEnv ==
    /\ \E n \in EnvNames : env[n] # None /\ env' = [env EXCEPT ![n] = None]
    /\ UNCHANGED <<store, HAS_LIVEKIT_SDK, frames, probe>>

\* set_param(key, value) with a non-empty value
SetParam ==
    /\ \E n \in EnvNames : \E t \in CredTexts(n, FewUrlTexts) \ {<<>>} :
          store' = [store EXCEPT ![ParamOf(n)] = Some(t)]
    /\ UNCHANGED <<env, HAS_LIVEKIT_SDK, frames, probe>>

\* the parameter's record is deleted
UnlinkParam ==
    /\ \E k \in ParamKeys : store[k] # None /\ store' = [store EXCEPT ![k] = None]
    /\ UNCHANGED <<env, HAS_LIVEKIT_SDK, frames, probe>>

Serve(reqs) ==
    /\ \E req \in reqs : frames' = [frames EXCEPT ![1] = get_token(req, Globals)]
    /\ UNCHANGED <<env, store, HAS_LIVEKIT_SDK, probe>>

SeqRequests == [agent_id : {None, Some("accounting")}, user : {Alice},
                fault : {"none", "import"}]

\* POST /voice/token
GetToken == Serve(SeqRequests)

Next == SetEnv \/ UnsetEnv \/ SetParam \/ UnlinkParam \/ GetToken

Spec == Init /\ [][Next]_vars

(***************************************************************************)
(* SpecCall: one call under every configuration, agent id and fault.       *)
(***************************************************************************)
InitCall ==
    /\ env \in Environs(UrlTexts)
    /\ store \in ParamStores(UrlTexts)
    /\ HAS_LIVEKIT_SDK = TRUE
    /\ frames = [r \in Requests |-> IdleFrame]
    /\ probe = IdleProbe

CallRequests == [agent_id : AgentIds, user : {Alice, Blank}, fault : Faults]

CallOnce == frames[1].pc = "idle" /\ Serve(CallRequests)

SpecCall == InitCall /\ [][CallOnce]_vars

(***************************************************************************)
(* SpecIdentity: one call for every caller, fully configured.              *)
(***************************************************************************)
InitIdentity ==
    /\ env = AllSet
    /\ store = NoParams
    /\ HAS_LIVEKIT_SDK = TRUE
    /\ frames = [r \in Requests |-> IdleFrame]
    /\ probe = IdleProbe

IdentityRequests == [agent_id : {None}, user : Users, fault : {"none"}]

IdentifyCaller == frames[1].pc = "idle" /\ Serve(IdentityRequests)

SpecIdentity == InitIdentity /\ [][IdentifyCaller]_vars

(***************************************************************************)
(* SpecSanitize: the sanitization statements applied to every raw text.    *)
(***************************************************************************)
InitSanitize ==
    /\ env = AllSet
    /\ store = NoParams
    /\ HAS_LIVEKIT_SDK = TRUE
    /\ frames = [r \in Requests |-> IdleFrame]
    /\ probe \in [raw : Texts(RawChars, MaxRawLen) \cup {JohnDoe}, sanitized : {None}]

SanitizeProbe ==
    /\ probe.sanitized = None
    /\ probe' = [probe EXCEPT !.sanitized = Some(Sanitize(probe.raw))]
    /\ UNCHANGED <<env, store, HAS_LIVEKIT_SDK, frames>>

SpecSanitize == InitSanitize /\ [][SanitizeProbe]_vars

(***************************************************************************)
(* SpecConc: requests served concurrently, one statement at a time, under  *)
(* a fixed configuration.                                                  *)
(***************************************************************************)
SecretMissing == [AllSet EXCEPT !["LIVEKIT_API_SECRET"] = None]

InitConc ==
    /\ env \in {AllSet, SecretMissing}
    /\ store = NoParams
    /\ HAS_LIVEKIT_SDK \in BOOLEAN
    /\ frames = [r \in Requests |-> IdleFrame]
    /\ probe = IdleProbe

ConcRequests == [agent_id : {None, Some("accounting"), Some("customer_support")},
                 user : {Alice},
                 fault : {"none", "sign"}]

\* a request enters get_token
Begin(r) ==
    /\ frames[r].pc = "idle"
    /\ \E req \in ConcRequests : frames' = [frames EXCEPT ![r] = NewFrame(req)]
    /\ UNCHANGED <<env, store, HAS_LIVEKIT_SDK, probe>>

\* a request executes its next statement
Advance(r) ==
    /\ Running(frames[r])
    /\ frames' = [frames EXCEPT ![r] = Step(frames[r], Globals)]
    /\ UNCHANGED <<env, store, HAS_LIVEKIT_SDK, probe>>

NextConc == \E r \in Requests : Begin(r) \/ Advance(r)

SpecConc == InitConc /\ [][NextConc]_vars

(***************************************************************************)
(* What the claims speak of.                                               *)
(***************************************************************************)
\* the value a setting has under the current configuration: the environment
\* value when it is non-empty, otherwise the stored value, otherwise empty
Setting(name) ==
    IF env[name] # None /\ env[name] # Some(<<>>) THEN env[name][1]
    ELSE IF store[ParamOf(name)] # None THEN store[ParamOf(name)][1]
    ELSE <<>>

SomeSettingMissing == \E n \in EnvNames : Setting(n) = <<>>

IsError(resp) == DOMAIN resp = {"error"}
IsSuccess(resp) == DOMAIN resp = {"room", "token", "url", "agent_id", "prompt"}

Returned(f) == f.pc = "done" /\ f.response # None

\* the characters of [A-Za-z0-9_.-]
IdentityChars == Lower \cup Upper \cup Range(Digits) \cup {"_", ".", "-"}

\* the request meets a failure: a setting is missing, the parameter store
\* fails when it is consulted, or a later step fails
Fails(req) ==
    \/ SomeSettingMissing
    \/ req.fault \in {"user", "import", "import_other", "sign"}
    \/ req.fault = "store" /\ \E n \in EnvNames : env[n] \in {None, Some(<<>>)}

\* t is s without some trailing "/" characters, and does not end with "/"
IsStripped(t, s) ==
    /\ (t = <<>> \/ t[Len(t)] # "/")
    /\ Len(t) <= Len(s)
    /\ t = SubSeq(s, 1, Len(t))
    /\ \A i \in (Len(t) + 1)..Len(s) : s[i] = "/"

\* a login or display name that is neither empty nor blank
Usable(o) == o # None /\ \E i \in DOMAIN o[1] : o[1][i] \notin Whitespace

\* the identity the priority order login, display name, user_{id},
\* "anonymous" gives a caller
ClaimedIdentity(user) ==
    LET last == IF TruthyId(user.id) THEN UserIdText(user) ELSE Anonymous
        source == IF Usable(user.login) THEN user.login[1]
                  ELSE IF Usable(user.name) THEN user.name[1]
                  ELSE last
        clean == Sanitize(source)
    IN IF clean = <<>> THEN last ELSE clean

\* what becomes of one character: space, "@", a kept character, any other
MapChar(c) ==
    IF c = " " THEN <<"_">>
    ELSE IF c = "@" THEN <<"_", "a", "t", "_">>
    ELSE IF c \in IdentityChars THEN <<c>>
    ELSE <<>>

\* every character mapped, in order
RECURSIVE MapEach(_)
MapEach(s) == IF s = <<>> THEN <<>> ELSE MapChar(Head(s)) \o MapEach(Tail(s))

\* the outcome of a call agrees with the settings as they are now
SeesCurrentSettings(f) ==
    /\ Returned(f)
    /\ SomeSettingMissing =>
          /\ IsError(f.response[1])
          /\ EnvNames \subseteq Range(f.response[1].error)
    /\ (~SomeSettingMissing /\ f.request.fault = "none") =>
          /\ IsSuccess(f.response[1])
          /\ f.response[1].token.iss = Setting("LIVEKIT_API_KEY")
          /\ f.response[1].token.signed_with = Setting("LIVEKIT_API_SECRET")
          /\ IsStripped(f.response[1].url, Setting("LIVEKIT_URL"))
    /\ (~SomeSettingMissing /\ IsError(f.response[1])) =>
          ~(EnvNames \subseteq Range(f.response[1].error))

\* the outcome of a call is that of the same call running alone, under
\* either value of the import-time flag
AsAlone(f) ==
    \A flag \in BOOLEAN :
        LET alone == get_token(f.request, [Globals EXCEPT !.HAS_LIVEKIT_SDK = flag])
        IN f.response = alone.response /\ f.signCalls = alone.signCalls

(***************************************************************************)
(* C1.  When at least one of the three settings resolves to empty          *)
(* (environment, then store, both read without failure), the call returns  *)
(* an error-only payload whose message names LIVEKIT_URL, LIVEKIT_API_KEY  *)
(* and LIVEKIT_API_SECRET, and the signing primitive was not invoked,      *)
(* for every agent id, caller and fault of the signing SDK.                *)
(***************************************************************************)
C1_ConfigurationError ==
    LET f == frames[1]
    IN (Returned(f) /\ SomeSettingMissing /\ f.request.fault # "store")
       => /\ IsError(f.response[1])
          /\ EnvNames \subseteq Range(f.response[1].error)
          /\ f.signCalls = <<>>

\* only the secret is missing, an agent is named and the SDK would fail
C1_Witness ==
    LET f == frames[1]
    IN /\ Returned(f)
       /\ Setting("LIVEKIT_URL") # <<>> /\ Setting("LIVEKIT_API_KEY") # <<>>
       /\ Setting("LIVEKIT_API_SECRET") = <<>>
       /\ f.request.agent_id = Some("accounting")
       /\ f.request.fault = "import"
       /\ IsError(f.response[1])

(***************************************************************************)
(* C2.  No exception leaves get_token, every response is either a          *)
(* complete success response or exactly {error: message}, and every        *)
(* request that meets a failure gets the error-only response.              *)
(***************************************************************************)
C2_ErrorOnly ==
    LET f == frames[1]
    IN /\ f.pc \in {"idle", "done"}
       /\ f.pc = "done" =>
            /\ f.response # None
            /\ IsError(f.response[1]) \/ IsSuccess(f.response[1])
            /\ Fails(f.request) => IsError(f.response[1])

\* the signing primitive was invoked and raised
C2_Witness ==
    LET f == frames[1]
    IN /\ Returned(f)
       /\ f.request.fault = "sign"
       /\ Len(f.signCalls) = 1
       /\ f.response[1] = [error |-> <<ExceptionText("sign")>>]

(***************************************************************************)
(* C3.  The identity handed to the signing primitive is never empty and    *)
(* consists of characters of [A-Za-z0-9_.-] only, for every caller.        *)
(***************************************************************************)
C3_IdentityWellFormed ==
    \A r \in Requests : \A i \in DOMAIN frames[r].signCalls :
        /\ frames[r].signCalls[i].identity # <<>>
        /\ Range(frames[r].signCalls[i].identity) \subseteq IdentityChars

\* a caller whose login is all punctuation and who has no name and no id
C3_Witness ==
    LET f == frames[1]
    IN /\ Returned(f)
       /\ f.request.user = [login |-> Some(<<"!", "!">>), name |-> None, id |-> None]
       /\ Len(f.signCalls) = 1
       /\ f.signCalls[1].identity = Anonymous

C5_RoomPerAgent ==
    \A r1, r2 \in Requests :
        (Returned(frames[r1]) /\ IsSuccess(frames[r1].response[1])
            /\ Returned(frames[r2]) /\ IsSuccess(frames[r2].response[1]))
        => LET a == frames[r1].response[1]
               b == frames[r2].response[1]
           IN /\ a.room = "voice_chat_" \o a.agent_id
              /\ frames[r1].request.agent_id \in {Some(k) : k \in KnownAgents}
                    => a.agent_id = frames[r1].request.agent_id[1]
              /\ (a.agent_id = b.agent_id) <=> (a.room = b.room)

\* two requests for two distinct known agents were both served
C5_Witness ==
    /\ Returned(frames[1]) /\ Returned(frames[2])
    /\ frames[1].request.agent_id = Some("accounting")
    /\ frames[2].request.agent_id = Some("customer_support")
    /\ IsSuccess(frames[1].response[1]) /\ IsSuccess(frames[2].response[1])
    /\ frames[1].response[1].room = "voice_chat_accounting"
    /\ frames[2].response[1].room = "voice_chat_customer_support"

(***************************************************************************)
(* C6.  In a success response room, agent_id and prompt belong together,   *)
(* the token is the output of the single signing call, made with the       *)
(* resolved key and secret, a well-formed identity and the grant           *)
(* {room_join, can_publish, can_subscribe, room = the response's room},    *)
(* and url is the resolved URL without trailing "/".                       *)
(***************************************************************************)
C6_ConsistentSuccess ==
    LET f == frames[1]
    IN (Returned(f) /\ IsSuccess(f.response[1]))
       => LET resp == f.response[1]
          IN /\ resp.room = "voice_chat_" \o resp.agent_id
             /\ resp.agent_id \in KnownAgents
             /\ resp.prompt = agent_prompts[resp.agent_id]
             /\ Len(f.signCalls) = 1
             /\ f.signCalls[1].api_key = Setting("LIVEKIT_API_KEY")
             /\ f.signCalls[1].api_secret = Setting("LIVEKIT_API_SECRET")
             /\ f.signCalls[1].identity # <<>>
             /\ Range(f.signCalls[1].identity) \subseteq IdentityChars
             /\ f.signCalls[1].grants =
                    [room_join |-> TRUE, can_publish |-> TRUE,
                     can_subscribe |-> TRUE, room |-> resp.room]
             /\ resp.token = [iss |-> f.signCalls[1].api_key,
                              sub |-> f.signCalls[1].identity,
                              video |-> f.signCalls[1].grants,
                              signed_with |-> f.signCalls[1].api_secret]
             /\ IsStripped(resp.url, Setting("LIVEKIT_URL"))

\* the accounting agent served under a URL that ends with "/"
C6_Witness ==
    LET f == frames[1]
    IN /\ Returned(f) /\ IsSuccess(f.response[1])
       /\ f.request.agent_id = Some("accounting")
       /\ Setting("LIVEKIT_URL") = <<"h", "/">>
       /\ f.response[1].url = <<"h">>
       /\ f.response[1].room = "voice_chat_accounting"

(***************************************************************************)
(* C7.  The identity comes from the login when it is usable (not empty,    *)
(* not blank), otherwise from the display name when that is usable,        *)
(* otherwise it is "user_{id}" for a truthy id, otherwise "anonymous".     *)
(***************************************************************************)
C7_PriorityOrder ==
    LET f == frames[1]
    IN (Returned(f) /\ Len(f.signCalls) = 1)
       => f.signCalls[1].identity = ClaimedIdentity(f.request.user)

(***************************************************************************)
(* C8.  As claimed: sanitization maps every space to "_", every "@" to     *)
(* "_at_", keeps the characters of [A-Za-z0-9_.-] and removes the rest,    *)
(* wherever the space stands.                                              *)
(***************************************************************************)
C8_EverySpaceMapped ==
    probe.sanitized # None => probe.sanitized[1] = MapEach(probe.raw)

(***************************************************************************)
(* C8, amended.  Leading and trailing whitespace is removed first; of what *)
(* remains every space becomes "_", every "@" becomes "_at_", characters   *)
(* of [A-Za-z0-9_.-] are kept in order and every other character is        *)
(* removed.                                                                *)
(***************************************************************************)
C8_InnerSpacesMapped ==
    probe.sanitized # None =>
        \E i \in 1..(Len(probe.raw) + 1) : \E j \in 0..Len(probe.raw) :
            /\ \A k \in 1..(i - 1) : probe.raw[k] \in Whitespace
            /\ \A k \in (j + 1)..Len(probe.raw) : probe.raw[k] \in Whitespace
            /\ i <= j => probe.raw[i] \notin Whitespace /\ probe.raw[j] \notin Whitespace
            /\ i > j => i = j + 1
            /\ probe.sanitized[1] = MapEach(SubSeq(probe.raw, i, j))

\* the example of the specification, sanitized
C8_Witness ==
    /\ probe.raw = JohnDoe
    /\ probe.sanitized =
          Some(<<"j","o","h","n",".","d","o","e","_","a","t","_",
                 "e","x","a","m","p","l","e",".","c","o","m">>)

(***************************************************************************)
(* C9.  Every call sees the configuration as it is when the call is made:  *)
(* it fails with the configuration error exactly when a setting is empty   *)
(* in both sources now, and a call that succeeds uses the values the       *)
(* settings have now (environment when non-empty, otherwise store),        *)
(* whatever earlier calls saw.                                             *)
(***************************************************************************)
C9_NoCaching ==
    [][(env' = env /\ store' = store) => SeesCurrentSettings(frames'[1])]_vars

\* the last call succeeded with the URL from the store, the environment
\* holding an empty LIVEKIT_URL; the secret has been removed since
C9_Witness ==
    LET f == frames[1]
    IN /\ Returned(f) /\ IsSuccess(f.response[1])
       /\ f.response[1].url = <<"w">>
       /\ env["LIVEKIT_URL"] = Some(<<>>)
       /\ store["livekit.url"] = Some(<<"w", "/">>)
       /\ Setting("LIVEKIT_API_SECRET") = <<>>

(***************************************************************************)
(* C10.  Under every interleaving of the statements of concurrent          *)
(* requests, a request returns the response and makes the signing call it  *)
(* makes when it runs alone, whatever the value of HAS_LIVEKIT_SDK; and no *)
(* statement changes the environment, the store, the flag or the request   *)
(* (agent id, user record) a call was given.                               *)
(***************************************************************************)
C10_Independent ==
    /\ [](\A r \in Requests : frames[r].pc = "done" => AsAlone(frames[r]))
    /\ [][/\ env' = env /\ store' = store /\ HAS_LIVEKIT_SDK' = HAS_LIVEKIT_SDK
          /\ \A r \in Requests :
                frames[r].pc # "idle" => frames'[r].request = frames[r].request]_vars

\* one request has been served while another is about to sign, the flag
\* saying the SDK was missing at import time
C10_Witness ==
    /\ ~HAS_LIVEKIT_SDK
    /\ Returned(frames[1]) /\ IsSuccess(frames[1].response[1])
    /\ frames[2].pc = "sign"
    /\ frames[2].request # frames[1].request

====
